---- MODULE Spec2Model ----
(***************************************************************************)
(* The todo mutation pipeline of stiffinWanjohi/todo-api: the document     *)
(* store (TodoModel), the entity cache of TodoService (Redis keys          *)
(* todo:<id>), the response cache of CacheMiddleware (Redis keys           *)
(* <base>:<path> and the tag index cache:tag:<tag>), and the HTTP requests *)
(* that run through the router, the controller and the service.  Every     *)
(* await of the source is one step of a request, so requests interleave    *)
(* exactly at the suspension points of the code.  A second specification, *)
(* ProducerSpec, runs the callers of the TodoProducer singleton            *)
(* (events/producers/todo.producer.ts) against KafkaClient, and a third,   *)
(* QuerySpec, the pagination of GET /todos (TodoController.queryTodos and  *)
(* TodoService.query); a fourth, ConsumerSpec, the topic todo-events with  *)
(* its publishers and TodoConsumer (events/consumers/todo.consumer.ts).    *)
(***************************************************************************)
EXTENDS Integers, Sequences, FiniteSets, TLC

(* ------------------------------ bounds -------------------------------- *)
\* identifiers the store can assign
NumIds == 2

\* largest version a request body supplies
MaxVersion == 2

\* requests in flight at the same time
NumProcs == 2

\* requests issued in one behaviour
MaxRequests == 2

\* failing calls to Redis or Kafka in one behaviour
MaxFailures == 1

\* callers of the TodoProducer singleton in flight at the same time
NumCallers == 2

\* calls of sendTodoEvent, sendBatchTodoEvents and disconnect in one behaviour
MaxCalls == 3

\* events in one call of sendBatchTodoEvents
MaxBatch == 2

\* largest page number a list request asks for
MaxPage == 2

\* largest limit a list request asks for
MaxParam == 101

\* messages published to the topic todo-events in one behaviour of ConsumerSpec
MaxMessages == 2

Ids == 1..NumIds
Procs == 1..NumProcs
Callers == 1..NumCallers

(* ------------------------------ values -------------------------------- *)
\* interfaces/response.interface.ts, enum TodoStatus
TodoStatus == {"PENDING", "IN_PROGRESS", "COMPLETED", "ARCHIVED"}

\* a field a request body or an update document does not carry
Absent == "ABSENT"

\* the null result of findOne / findOneAndUpdate, and a cache miss
NoDoc == [version |-> 0, isDeleted |-> FALSE, status |-> "NONE", completedAt |-> FALSE]

\* a stored document: the fields of TodoSchema the pipeline reads or writes
Docs == [version : 1..(MaxVersion + 1), isDeleted : BOOLEAN, status : TodoStatus,
         completedAt : BOOLEAN]

\* a request body with the fields the listed bodies leave out
NoData == [version |-> 0, status |-> Absent, isDeleted |-> Absent]

\* bodies of create requests (ITodoCreate): the defaults, a status, the
\* isDeleted flag of ITodo, and a version, which the validation of part_007
\* lets through because the stripped value of Joi is discarded
CreateData == {NoData, [NoData EXCEPT !.status = "COMPLETED"],
               [NoData EXCEPT !.isDeleted = "TRUE"], [NoData EXCEPT !.version = 2]}

\* the fields an update body (ITodoUpdate) carries besides version
UpdateFields == {NoData, [NoData EXCEPT !.status = "COMPLETED"],
                 [NoData EXCEPT !.isDeleted = "TRUE"]}

\* bodies of update requests: version is required
UpdateData == {[f EXCEPT !.version = v] : f \in UpdateFields, v \in 1..MaxVersion}

\* the update object of bulk-update requests (Partial<ITodo>)
BulkData == {[NoData EXCEPT !.status = "ARCHIVED"],
             [NoData EXCEPT !.status = "COMPLETED"],
             [NoData EXCEPT !.status = "ARCHIVED", !.version = 1],
             [NoData EXCEPT !.status = "ARCHIVED", !.isDeleted = "TRUE"]}

NoReq == [op |-> "none", id |-> 0, ids |-> {}, data |-> NoData]

\* Redis keys of the response cache, generateCacheKey: <base>:<path>; path 0
\* stands for the router paths "/" and "/statistics", path i for "/<id>" and,
\* for the base "todos", path 1 for "/" with the query string status=COMPLETED
RKey(base, path) == [base |-> base, path |-> path]

RKeys == {RKey("todo", i) : i \in Ids}
            \cup {RKey("todos", q) : q \in {0, 1}}
            \cup {RKey("todoStatistics", 0)}

\* tag names: "todo", "todos", "todoStatistics" (id 0) and "todo:<id>"
Tag(name, id) == [name |-> name, id |-> id]

Tags == {Tag("todo", 0), Tag("todos", 0), Tag("todoStatistics", 0)}
          \cup {Tag("todo:", i) : i \in Ids}

NoItems == [i \in Ids |-> NoDoc]

\* a response body (IApiResponse), and the miss of the response cache
NoBody == [kind |-> "none", success |-> FALSE, code |-> "", data |-> NoDoc,
           items |-> NoItems, count |-> 0]

NoResp == [status |-> 0, body |-> NoBody]

(* ------------------------- the document store ------------------------- *)
\* new TodoModel(data): the schema defaults of isDeleted, version and status
\* apply to the fields the body leaves out
NewDoc(data) == [version |-> IF data.version = 0 THEN 1 ELSE data.version,
                 isDeleted |-> data.isDeleted = "TRUE",
                 status |-> IF data.status = Absent THEN "PENDING" ELSE data.status,
                 completedAt |-> FALSE]

\* mutants of the filter of update: the version is not compared, or is
\* compared with >= instead of =
UpdateFilter_NoVersion(d, data) == d # NoDoc /\ ~d.isDeleted

\* mutant of the filter of update: isDeleted is not part of it
UpdateFilter_AnyState(d, data) == d # NoDoc /\ d.version = data.version

UpdateFilter_AtLeast(d, data) == d # NoDoc /\ ~d.isDeleted /\ d.version >= data.version

\* the filter of TodoService.update: { _id, isDeleted: false, version }
UpdateFilter(d, data) == d # NoDoc /\ ~d.isDeleted /\ d.version = data.version

\* mutant of the update document: version: data.version, without the + 1
UpdateDoc_NoBump(d, data) == [version |-> data.version,
                              isDeleted |-> IF data.isDeleted = "TRUE" THEN TRUE
                                            ELSE d.isDeleted,
                              status |-> IF data.status = Absent THEN d.status
                                         ELSE data.status,
                              completedAt |-> IF data.status = "COMPLETED" THEN TRUE
                                              ELSE d.completedAt]

\* the update document of TodoService.update
UpdateDoc(d, data) == [version |-> data.version + 1,
                       isDeleted |-> IF data.isDeleted = "TRUE" THEN TRUE ELSE d.isDeleted,
                       status |-> IF data.status = Absent THEN d.status ELSE data.status,
                       completedAt |-> IF data.status = "COMPLETED" THEN TRUE
                                       ELSE d.completedAt]

\* the filter of TodoService.delete, of findById and of query: isDeleted: false
ActiveFilter(d) == d # NoDoc /\ ~d.isDeleted

\* mutant of the filter of restore: isDeleted is not part of it
RestoreFilter_Any(d) == d # NoDoc

\* the filter of TodoService.restore: isDeleted: true
RestoreFilter(d) == d # NoDoc /\ d.isDeleted

\* mutant of the update document of delete: the document is removed
SetDeleted_Remove(d, flag) == IF flag THEN NoDoc ELSE [d EXCEPT !.isDeleted = flag]

\* mutant of the update documents of delete and restore: the version is
\* incremented too
SetDeleted_Bump(d, flag) == [d EXCEPT !.isDeleted = flag, !.version = @ + 1]

\* the update documents of delete and restore
SetDeleted(d, flag) == [d EXCEPT !.isDeleted = flag]

\* mutant of updateMany: a matched document whose version is not 1 is left
\* as it is
BulkDoc_Versioned(d, data) ==
    IF d.version # 1 THEN d
    ELSE [version |-> IF data.version = 0 THEN d.version ELSE data.version,
          isDeleted |-> IF data.isDeleted = "TRUE" THEN TRUE ELSE d.isDeleted,
          status |-> data.status,
          completedAt |-> d.completedAt]

\* the update object of updateMany, applied to one matched document
BulkDoc(d, data) == [version |-> IF data.version = 0 THEN d.version ELSE data.version,
                     isDeleted |-> IF data.isDeleted = "TRUE" THEN TRUE ELSE d.isDeleted,
                     status |-> data.status,
                     completedAt |-> d.completedAt]

\* the documents a query without filters returns, and the $match of getStatistics
ActiveItems(st) == [i \in Ids |-> IF ActiveFilter(st[i]) THEN st[i] ELSE NoDoc]

\* the documents of the query { status, isDeleted: false } (status Absent: no
\* status filter)
QueryItems(st, status) ==
    [i \in Ids |-> IF ActiveFilter(st[i]) /\ (status = Absent \/ st[i].status = status)
                   THEN st[i] ELSE NoDoc]

\* the path and query string of a list request in its cache key: 0 for "/",
\* 1 for "/:status=COMPLETED"
QueryPath(status) == IF status = Absent THEN 0 ELSE 1

ActiveCount(st) == Cardinality({i \in Ids : ActiveFilter(st[i])})

(* --------------------------- response bodies --------------------------- *)
\* ResponseHandler.success with one record as data
TodoBody(d) == [NoBody EXCEPT !.kind = "todo", !.success = TRUE, !.data = d]

\* ResponseHandler.success(res, { message })
MessageBody == [NoBody EXCEPT !.kind = "message", !.success = TRUE]

\* ResponseHandler.success(res, { updatedCount })
CountBody(n) == [NoBody EXCEPT !.kind = "count", !.success = TRUE, !.count = n]

\* ResponseHandler.success(res, result.items, result.metadata)
ListBody(items) == [NoBody EXCEPT !.kind = "list", !.success = TRUE, !.items = items]

\* ResponseHandler.success(res, statistics): totalTodos
StatsBody(n) == [NoBody EXCEPT !.kind = "stats", !.success = TRUE, !.count = n]

\* errorHandler: ResponseHandler.error(res, error.code, ..., error.status)
ErrorResp(status, code) == [status |-> status,
                            body |-> [NoBody EXCEPT !.kind = "error", !.code = code]]

OkResp(status, body) == [status |-> status, body |-> body]

VersionConflict == ErrorResp(409, "TODO_VERSION_CONFLICT")

NotFound == ErrorResp(404, "RESOURCE_NOT_FOUND")

CacheError == ErrorResp(500, "CACHE_ERROR")

EventPublishError == ErrorResp(500, "EVENT_PUBLISH_ERROR")

DatabaseError == ErrorResp(500, "DATABASE_ERROR")

(* --------------------------- event messages --------------------------- *)
\* the message key of a payload without _id: "default"
DefaultKey == 0

\* no message handed to the producer
NoMsg == [type |-> "NONE", key |-> DefaultKey]

\* the event type each service method passes to publishEvent
EventType(r) == CASE r.op = "create" -> "TODO_CREATED"
                  [] r.op = "update" -> "TODO_UPDATED"
                  [] r.op = "delete" -> "TODO_DELETED"
                  [] r.op = "restore" -> "TODO_RESTORED"
                  [] OTHER -> "TODOS_BULK_UPDATED"

\* payload._id?.toString() || "default": create, update and restore pass the
\* document, delete passes { id } and bulkUpdate { ids, update, modifiedCount }
EventKey(r) == IF r.op \in {"create", "update", "restore"} THEN r.id ELSE DefaultKey

\* the message of producer.send
Message(r) == [type |-> EventType(r), key |-> EventKey(r)]

(* ------------------------------- state --------------------------------- *)
\* store     the TodoModel collection: the document of each identifier
\* cache     Redis, the entity entries todo:<id> of TodoService
\* rcache    Redis, the response entries <base>:<path> of CacheMiddleware
\* tagIndex  Redis, the sets cache:tag:<tag> of CacheMiddleware
\* pc        the await each request stands at
\* req       the request of each slot (route, identifier(s), body)
\* todo      the local const todo of the service method a request runs
\* keys      the local const keys of invalidateCache
\* out       the response a handler has handed to res.json
\* resp      the response sent to the client (the first one wins)
\* override  whether res.json is the override of the cache middleware
\* trace     history: the calls a request has made, in order
\* lastWrite history: the last committed write of each document, the request
\*           that made it while it runs, and whether it was answered 2xx
\* since     history: for a GET /:id, the write of its document that had been
\*           answered when the GET was issued ("failedWrite": answered with
\*           an error); for a list or statistics read, "mutation" if a write
\*           had been answered 2xx and none was under way; "none" once a
\*           later write commits
\* rival     history: the update a committed update raced with
\* started   requests received so far
\* fails     Redis and Kafka calls that have failed so far
\* msg       the message each request has handed to producer.send
VARIABLES store, cache, rcache, tagIndex, pc, req, todo, keys, out, resp, override,
          trace, lastWrite, since, rival, started, fails, msg

\* the state of TodoProducer, of KafkaClient and of the callers of TodoProducer
\* producer       TodoProducer.producer (NoProducer: null)
\* initialized    TodoProducer.initialized
\* kafkaProducer  KafkaClient.producer (NoProducer: null)
\* created        the Producer objects KafkaClient has created so far; the
\*                n-th one is the handle n
\* connected      the Producer objects whose connection is up
\* cpc            the await each caller stands at
\* call           the call each caller runs or has last run
\* local          the Producer object a caller holds in a local (the object
\*                it connects, disconnects or sends on)
\* result         how the last call of a caller ended ("none": it runs)
\* sent           the keys of the messages the call of a caller has sent
\* acquired       history: the calls of KafkaClient.getProducer TodoProducer
\*                has made since its last completed disconnect, those that
\*                rejected left out
\* calls          calls started so far
VARIABLES producer, initialized, kafkaProducer, created, connected, cpc, call, local,
          result, sent, acquired, calls

pipelineVars == <<store, cache, rcache, tagIndex, pc, req, todo, keys, out, resp, override,
                  trace, lastWrite, since, rival, started, fails, msg>>

producerVars == <<producer, initialized, kafkaProducer, created, connected, cpc, call,
                  local, result, sent, acquired, calls>>

\* the list request of QuerySpec
\* qpc      the position of the list request: "idle", "find" (the await of
\*          TodoModel.find and countDocuments) or "done"
\* query    the page and limit parameters of its query string
\* applied  the skip and limit TodoService.query has handed to TodoModel.find
\* qresp    its response: the status, the error code, the limit of the
\*          metadata and the number of items
VARIABLES qpc, query, applied, qresp

queryVars == <<qpc, query, applied, qresp>>

\* the topic todo-events of ConsumerSpec
\* topic    the messages of the topic TodoConsumer has not consumed yet, each
\*          with its publisher (history) and its JSON value
\* handled  history: the messages eachMessage has processed, each with what
\*          became of it: "set" (redis.setex), "del" (redis.del), "ignored"
\*          (unknown event type) or "deadLetter" (handleDeadLetter)
VARIABLES topic, handled

consumerVars == <<topic, handled>>

\* what the HTTP pipeline leaves alone
otherVars == <<producerVars, queryVars, consumerVars>>

vars == <<pipelineVars, producerVars, queryVars, consumerVars>>

ConsumerInit == topic = <<>> /\ handled = <<>>

(* --------------------- list requests: values and Init ------------------ *)
\* a parameter of the query string: left out, given empty ("limit="), given
\* as text parseInt cannot read (NaN), or given as a number
NoParam == [kind |-> "absent", n |-> 0]

Params(lo, hi) == {NoParam, [kind |-> "empty", n |-> 0], [kind |-> "text", n |-> 0]}
                    \cup {[kind |-> "int", n |-> k] : k \in lo..hi}

\* no call of TodoModel.find made
NoFind == [made |-> FALSE, skip |-> 0, limit |-> 0]

NoQueryResp == [status |-> 0, code |-> "", limit |-> 0, items |-> 0]

QueryInit == /\ qpc = "idle"
             /\ query = [page |-> NoParam, limit |-> NoParam]
             /\ applied = NoFind
             /\ qresp = NoQueryResp

(* ------------------- TodoProducer: values and Init --------------------- *)
\* null, the value of TodoProducer.producer and KafkaClient.producer before
\* a producer is acquired
NoProducer == 0

\* the _id of a todo that has none (undefined)
NoId == 0

\* the todos a caller sends: an _id, or none
TodoIds == Ids \cup {NoId}

\* the events of a call of sendBatchTodoEvents, each given by the _id of its todo
Batches == UNION {[1..n -> TodoIds] : n \in 1..MaxBatch}

NoCall == [op |-> "none", events |-> <<>>]

\* a fresh TodoProducer (getInstance on a process that has not used Kafka)
ProducerInit == /\ producer = NoProducer
                /\ initialized = FALSE
                /\ kafkaProducer = NoProducer
                /\ created = 0
                /\ connected = {}
                /\ cpc = [c \in Callers |-> "idle"]
                /\ call = [c \in Callers |-> NoCall]
                /\ local = [c \in Callers |-> NoProducer]
                /\ result = [c \in Callers |-> "none"]
                /\ sent = [c \in Callers |-> <<>>]
                /\ acquired = 0
                /\ calls = 0

\* a document as a beforeEach of the integration tests creates it
SeedDoc == [version |-> 1, isDeleted |-> FALSE, status |-> "PENDING", completedAt |-> FALSE]

\* the stores a run starts on (the database outlives the process): the first
\* document exists, active or soft-deleted, later identifiers are handed out
\* in order
InitStores == {st \in [Ids -> {NoDoc, SeedDoc, SetDeleted(SeedDoc, TRUE)}] :
                 /\ st[1] # NoDoc
                 /\ \A i \in Ids \ {1} : st[i] \in {NoDoc, SeedDoc}
                 /\ \A i \in Ids : \A j \in Ids : (i < j /\ st[i] = NoDoc) => st[j] = NoDoc}

\* Redis as a run finds it: empty, or holding what GET /todos/:id of every
\* active document, GET /todos and GET /todos/statistics leave behind (the
\* entity entries, the response entries and their membership of the tags of
\* their routes)
WarmCache(st) == [i \in Ids |-> IF ActiveFilter(st[i]) THEN st[i] ELSE NoDoc]

WarmResponses(st) ==
    [k \in RKeys |-> CASE k = RKey("todos", 0) -> ListBody(ActiveItems(st))
                      [] k = RKey("todos", 1) ->
                            ListBody(QueryItems(st, "COMPLETED"))
                      [] k.base = "todoStatistics" -> StatsBody(ActiveCount(st))
                      [] k.base = "todo" /\ ActiveFilter(st[k.path]) -> TodoBody(st[k.path])
                      [] OTHER -> NoBody]

WarmTags(st) ==
    [t \in Tags |-> CASE t = Tag("todo", 0) ->
                            {RKey("todo", i) : i \in {j \in Ids : ActiveFilter(st[j])}}
                     [] t = Tag("todos", 0) -> {k \in RKeys : k.base = "todos"}
                     [] t = Tag("todoStatistics", 0) -> {RKey("todoStatistics", 0)}
                     [] OTHER -> {}]

NoWrite == [op |-> "none", by |-> 0, acked |-> FALSE]

Init == /\ store \in InitStores
        /\ \/ /\ cache = [i \in Ids |-> NoDoc]
              /\ rcache = [k \in RKeys |-> NoBody]
              /\ tagIndex = [t \in Tags |-> {}]
           \/ /\ cache = WarmCache(store)
              /\ rcache = WarmResponses(store)
              /\ tagIndex = WarmTags(store)
        /\ pc = [p \in Procs |-> "idle"]
        /\ req = [p \in Procs |-> NoReq]
        /\ todo = [p \in Procs |-> NoDoc]
        /\ keys = [p \in Procs |-> {}]
        /\ out = [p \in Procs |-> NoResp]
        /\ resp = [p \in Procs |-> NoResp]
        /\ override = [p \in Procs |-> FALSE]
        /\ trace = [p \in Procs |-> <<>>]
        /\ lastWrite = [i \in Ids |-> NoWrite]
        /\ since = [p \in Procs |-> "none"]
        /\ rival = [p \in Procs |-> 0]
        /\ started = 0
        /\ fails = 0
        /\ msg = [p \in Procs |-> NoMsg]
        /\ ProducerInit
        /\ QueryInit
        /\ ConsumerInit

(* ------------------------ bookkeeping of a run ------------------------- *)
\* trace[p] lists, in order, the kinds of calls request p has made so far:
\* "store" (a committed write), "publish", "publishFail" and "cache" (any
\* Redis call of a mutation, failed or not; consecutive ones are merged), and
\* for a read "getFail" (a failed get of Redis)
Log(p, e) == IF e = "cache" /\ trace[p] # <<>> /\ trace[p][Len(trace[p])] = e THEN trace
             ELSE [trace EXCEPT ![p] = Append(@, e)]

IsRead(r) == r.op \in {"get", "list", "stats"}

\* a committed store write of request p to the documents W
WriteBy(p, W, op) == [i \in Ids |-> IF i \in W THEN [op |-> op, by |-> p, acked |-> FALSE]
                                    ELSE lastWrite[i]]

\* reads of a written document no longer count as issued after the last write
SinceAfterWrite(W) == [q \in Procs |-> IF req[q].id \in W \/ (W # {} /\ req[q].op \in {"list", "stats"})
                                        THEN "none" ELSE since[q]]

\* a write of a third request ends the race of two updates on that document
RivalAfterWrite(p, W) == [q \in Procs |-> IF rival[q] # 0 /\ req[q].id \in W
                                              /\ q # p /\ rival[q] # p
                                           THEN 0 ELSE rival[q]]

\* the response of a mutation acknowledges (or not) the writes it made
Ack(p, ok) == [i \in Ids |-> IF lastWrite[i].by = p
                              THEN [lastWrite[i] EXCEPT !.by = 0, !.acked = ok]
                              ELSE lastWrite[i]]

\* a call to Redis or Kafka fails: at most MaxFailures times in a behaviour
Failing(n) == fails + n <= MaxFailures /\ fails' = fails + n

\* the lowest free request slot takes the next request
CanStart(p) == /\ pc[p] = "idle"
               /\ started < MaxRequests
               /\ \A q \in Procs : q < p => pc[q] # "idle"

Begin(p, r, at) == /\ CanStart(p)
                   /\ started' = started + 1
                   /\ req' = [req EXCEPT ![p] = r]
                   /\ pc' = [pc EXCEPT ![p] = at]
                   /\ since' = [since EXCEPT ![p] =
                                  CASE r.op = "get" /\ lastWrite[r.id].acked
                                         -> lastWrite[r.id].op
                                    [] r.op = "get" /\ ~lastWrite[r.id].acked
                                       /\ lastWrite[r.id].op # "none" /\ lastWrite[r.id].by = 0
                                         -> "failedWrite"
                                    [] r.op \in {"list", "stats"}
                                       /\ (\E i \in Ids : lastWrite[i].acked)
                                       /\ (\A i \in Ids : lastWrite[i].by = 0)
                                         -> "mutation"
                                    [] OTHER -> "none"]
                   /\ UNCHANGED <<otherVars, msg, store, cache, rcache, tagIndex, todo, keys, out, resp,
                                   override, trace, lastWrite, rival, fails>>

\* wrapAsync / errorHandler, or ResponseHandler.success, on a route without
\* the cache middleware: the response of a mutation
ReplyMut(p, r) == /\ pc' = [pc EXCEPT ![p] = "done"]
                  /\ resp' = [resp EXCEPT ![p] = r]
                  /\ lastWrite' = Ack(p, r.status < 300)

\* the handler of a GET route calls res.json: with the override of the cache
\* middleware installed the call first writes to Redis (step Json)
ReplyGet(p, r) == IF override[p]
                  THEN /\ pc' = [pc EXCEPT ![p] = "json"]
                       /\ out' = [out EXCEPT ![p] = r]
                       /\ UNCHANGED resp
                  ELSE /\ pc' = [pc EXCEPT ![p] = "done"]
                       /\ resp' = [resp EXCEPT ![p] = IF @ = NoResp THEN r ELSE @]
                       /\ UNCHANGED out

(* ------------------- GET routes: the cache middleware ------------------ *)
\* routes/todo.routes.ts: the cache configuration of the three GET routes
RouteKey(r) == CASE r.op = "get" -> RKey("todo", r.id)
                 [] r.op = "list" -> RKey("todos", QueryPath(r.data.status))
                 [] OTHER -> RKey("todoStatistics", 0)

RouteTags(r) == CASE r.op = "get" -> {Tag("todo", 0)}
                  [] r.op = "list" -> {Tag("todos", 0)}
                  [] OTHER -> {Tag("todoStatistics", 0)}

\* the handler the router runs after the middleware
Handler(r) == CASE r.op = "get" -> "fb_cacheGet"
                [] r.op = "list" -> "q_find"
                [] OTHER -> "st_agg"

StartGet(p) == \E i \in Ids : Begin(p, [NoReq EXCEPT !.op = "get", !.id = i], "mw")

StartList(p) == \E status \in {Absent, "COMPLETED"} :
                   Begin(p, [NoReq EXCEPT !.op = "list", !.data.status = status], "mw")

StartStats(p) == Begin(p, [NoReq EXCEPT !.op = "stats"], "mw")

\* CacheMiddleware.cache up to next(): redis.get; a hit is sent with res.json
\* and, as on a miss, the override is installed and the handler runs; a failing
\* redis.get is logged and the handler runs without the override.  An entry
\* whose TTL (setex with config.ttl) has run out is gone when it is read.
MwGet(p) == /\ pc[p] = "mw"
            /\ pc' = [pc EXCEPT ![p] = Handler(req[p])]
            /\ \/ /\ Failing(1)
                  /\ trace' = Log(p, "getFail")
                  /\ UNCHANGED <<rcache, resp, override>>
               \/ /\ UNCHANGED <<rcache, fails, trace>>
                  /\ override' = [override EXCEPT ![p] = TRUE]
                  /\ resp' = IF rcache[RouteKey(req[p])] # NoBody
                             THEN [resp EXCEPT ![p] = OkResp(200, rcache[RouteKey(req[p])])]
                             ELSE resp
               \/ /\ rcache[RouteKey(req[p])] # NoBody
                  /\ rcache' = [rcache EXCEPT ![RouteKey(req[p])] = NoBody]
                  /\ override' = [override EXCEPT ![p] = TRUE]
                  /\ UNCHANGED <<resp, fails, trace>>
            /\ UNCHANGED <<otherVars, msg, store, cache, tagIndex, req, todo, keys, out,
                            lastWrite, since, rival, started>>

\* the overridden res.json: setex of the body under the route key and sadd of
\* the key to the route's tags, neither awaited and each logged when it fails;
\* then the original res.json, which sends unless a response was sent already
Json(p) == /\ pc[p] = "json"
           /\ \E setOk \in BOOLEAN, tagOk \in BOOLEAN :
                /\ Failing((IF setOk THEN 0 ELSE 1) + (IF tagOk THEN 0 ELSE 1))
                /\ rcache' = IF setOk THEN [rcache EXCEPT ![RouteKey(req[p])] = out[p].body]
                              ELSE rcache
                /\ tagIndex' = IF tagOk
                                THEN [t \in Tags |-> IF t \in RouteTags(req[p])
                                                     THEN tagIndex[t] \cup {RouteKey(req[p])}
                                                     ELSE tagIndex[t]]
                                ELSE tagIndex
           /\ override' = [override EXCEPT ![p] = FALSE]
           /\ resp' = [resp EXCEPT ![p] = IF @ = NoResp THEN out[p] ELSE @]
           /\ pc' = [pc EXCEPT ![p] = "done"]
           /\ UNCHANGED <<otherVars, msg, store, cache, req, todo, keys, out, trace, lastWrite, since,
                           rival, started>>

(* ------------------------- TodoService.findById ------------------------ *)
\* cacheGet: a failure is thrown as CACHE_ERROR, a hit is returned; an entry
\* whose TTL (setex with CACHE_TTL) has run out is gone when it is read
FindByIdCacheGet(p) ==
    /\ pc[p] = "fb_cacheGet"
    /\ \/ /\ Failing(1)
          /\ trace' = Log(p, "getFail")
          /\ ReplyGet(p, CacheError)
          /\ UNCHANGED <<todo, cache>>
       \/ /\ UNCHANGED <<fails, cache, trace>>
          /\ cache[req[p].id] # NoDoc
          /\ todo' = [todo EXCEPT ![p] = cache[req[p].id]]
          /\ ReplyGet(p, OkResp(200, TodoBody(cache[req[p].id])))
       \/ /\ UNCHANGED <<fails, cache, trace>>
          /\ cache[req[p].id] = NoDoc
          /\ pc' = [pc EXCEPT ![p] = "fb_findOne"]
          /\ UNCHANGED <<todo, out, resp>>
       \/ /\ UNCHANGED <<fails, trace>>
          /\ cache[req[p].id] # NoDoc
          /\ cache' = [cache EXCEPT ![req[p].id] = NoDoc]
          /\ pc' = [pc EXCEPT ![p] = "fb_findOne"]
          /\ UNCHANGED <<todo, out, resp>>
    /\ UNCHANGED <<otherVars, msg, store, rcache, tagIndex, req, keys, override,
                    lastWrite, since, rival, started>>

\* TodoModel.findOne({ _id: id, isDeleted: false })
FindByIdFindOne(p) ==
    /\ pc[p] = "fb_findOne"
    /\ IF ActiveFilter(store[req[p].id])
       THEN /\ todo' = [todo EXCEPT ![p] = store[req[p].id]]
            /\ pc' = [pc EXCEPT ![p] = "fb_cacheSet"]
            /\ UNCHANGED <<out, resp>>
       ELSE /\ ReplyGet(p, NotFound)
            /\ UNCHANGED todo
    /\ UNCHANGED <<otherVars, msg, store, cache, rcache, tagIndex, req, keys, override, trace,
                    lastWrite, since, rival, started, fails>>

\* cacheSet(cacheKey, todo.toJSON()) and the return to getTodoById
FindByIdCacheSet(p) ==
    /\ pc[p] = "fb_cacheSet"
    /\ \/ /\ Failing(1)
          /\ ReplyGet(p, CacheError)
          /\ UNCHANGED cache
       \/ /\ UNCHANGED fails
          /\ cache' = [cache EXCEPT ![req[p].id] = todo[p]]
          /\ ReplyGet(p, OkResp(200, TodoBody(todo[p])))
    /\ UNCHANGED <<otherVars, msg, store, rcache, tagIndex, req, todo, keys, override, trace,
                    lastWrite, since, rival, started>>

\* the response has been delivered: the slot is free for the next request
FinishReq(p) ==
    /\ pc[p] = "done"
    /\ pc' = [pc EXCEPT ![p] = "idle"]
    /\ req' = [req EXCEPT ![p] = NoReq]
    /\ todo' = [todo EXCEPT ![p] = NoDoc]
    /\ keys' = [keys EXCEPT ![p] = {}]
    /\ out' = [out EXCEPT ![p] = NoResp]
    /\ resp' = [resp EXCEPT ![p] = NoResp]
    /\ trace' = [trace EXCEPT ![p] = <<>>]
    /\ since' = [since EXCEPT ![p] = "none"]
    /\ msg' = [msg EXCEPT ![p] = NoMsg]
    /\ rival' = [q \in Procs |-> IF q = p \/ rival[q] = p THEN 0 ELSE rival[q]]
    /\ UNCHANGED <<otherVars, store, cache, rcache, tagIndex, override, lastWrite, started,
                    fails>>

(* ------------------- CacheMiddleware.invalidateCache ------------------- *)
\* the tags each controller method passes to invalidateCache
InvTags(r) == CASE r.op = "create" -> {Tag("todos", 0)}
                [] r.op = "bulk" -> {Tag("todos", 0)} \cup {Tag("todo:", i) : i \in r.ids}
                [] r.op = "stats" -> {Tag("todoStatistics", 0)}
                [] OTHER -> {Tag("todos", 0), Tag("todo:", r.id)}

\* invalidateCache catches and logs every error, then the controller answers
EndInv(p) == IF IsRead(req[p])
             THEN ReplyGet(p, out[p]) /\ UNCHANGED lastWrite
             ELSE ReplyMut(p, out[p]) /\ UNCHANGED out

LogCache(p) == IF IsRead(req[p]) THEN trace ELSE Log(p, "cache")

\* mutant of invalidateCache: without the try/catch a failing smembers is
\* thrown to the error handler
InvKeys_Throw(p) ==
    /\ pc[p] = "inv_keys"
    /\ trace' = LogCache(p)
    /\ \/ /\ Failing(1)
          /\ IF IsRead(req[p])
             THEN ReplyGet(p, CacheError) /\ UNCHANGED lastWrite
             ELSE ReplyMut(p, CacheError) /\ UNCHANGED out
          /\ UNCHANGED keys
       \/ /\ UNCHANGED fails
          /\ LET ks == UNION {tagIndex[t] : t \in InvTags(req[p])}
             IN IF ks = {}
                THEN EndInv(p) /\ UNCHANGED keys
                ELSE /\ keys' = [keys EXCEPT ![p] = ks]
                     /\ pc' = [pc EXCEPT ![p] = "inv_del"]
                     /\ UNCHANGED <<out, resp, lastWrite>>
    /\ UNCHANGED <<otherVars, msg, store, cache, rcache, tagIndex, req, todo, override, since, rival,
                    started>>

\* getCacheKeysByTags: smembers of every tag, their union
InvKeys(p) ==
    /\ pc[p] = "inv_keys"
    /\ trace' = LogCache(p)
    /\ \/ /\ Failing(1)
          /\ EndInv(p)
          /\ UNCHANGED keys
       \/ /\ UNCHANGED fails
          /\ LET ks == UNION {tagIndex[t] : t \in InvTags(req[p])}
             IN IF ks = {}
                THEN EndInv(p) /\ UNCHANGED keys
                ELSE /\ keys' = [keys EXCEPT ![p] = ks]
                     /\ pc' = [pc EXCEPT ![p] = "inv_del"]
                     /\ UNCHANGED <<out, resp, lastWrite>>
    /\ UNCHANGED <<otherVars, msg, store, cache, rcache, tagIndex, req, todo, override, since, rival,
                    started>>

\* mutant of invalidateCache: redis.del(keys[0]) instead of redis.del(...keys)
InvDel_First(p) ==
    /\ pc[p] = "inv_del"
    /\ trace' = LogCache(p)
    /\ \/ /\ Failing(1)
          /\ EndInv(p)
          /\ UNCHANGED rcache
       \/ /\ UNCHANGED fails
          /\ rcache' = [rcache EXCEPT ![CHOOSE k \in keys[p] : TRUE] = NoBody]
          /\ pc' = [pc EXCEPT ![p] = "inv_srem"]
          /\ UNCHANGED <<out, resp, lastWrite>>
    /\ UNCHANGED <<otherVars, msg, store, cache, tagIndex, req, todo, keys, override, since, rival,
                    started>>

\* redis.del(...keys)
InvDel(p) ==
    /\ pc[p] = "inv_del"
    /\ trace' = LogCache(p)
    /\ \/ /\ Failing(1)
          /\ EndInv(p)
          /\ UNCHANGED rcache
       \/ /\ UNCHANGED fails
          /\ rcache' = [k \in RKeys |-> IF k \in keys[p] THEN NoBody ELSE rcache[k]]
          /\ pc' = [pc EXCEPT ![p] = "inv_srem"]
          /\ UNCHANGED <<out, resp, lastWrite>>
    /\ UNCHANGED <<otherVars, msg, store, cache, tagIndex, req, todo, keys, override, since, rival,
                    started>>

\* removeCacheKeyTags: srem of the keys from every cache:tag:* set
InvSrem(p) ==
    /\ pc[p] = "inv_srem"
    /\ trace' = LogCache(p)
    /\ \/ /\ Failing(1)
          /\ UNCHANGED tagIndex
       \/ /\ UNCHANGED fails
          /\ tagIndex' = [t \in Tags |-> tagIndex[t] \ keys[p]]
    /\ EndInv(p)
    /\ UNCHANGED <<otherVars, msg, store, cache, rcache, req, todo, keys, override, since, rival,
                    started>>

(* ----------------------- TodoService.publishEvent ---------------------- *)

\* mutant of publishEvent: the writes of create, delete and restore belong to
\* the transaction of the controller and are undone when the publish throws
PublishEvent_Rollback(p, next, err) ==
    /\ \/ /\ UNCHANGED <<fails, store>>
          /\ trace' = Log(p, "publish")
          /\ msg' = [msg EXCEPT ![p] = Message(req[p])]
          /\ pc' = [pc EXCEPT ![p] = next]
          /\ UNCHANGED <<resp, lastWrite>>
       \/ /\ Failing(1)
          /\ trace' = Log(p, "publishFail")
          /\ UNCHANGED msg
          /\ ReplyMut(p, err)
          /\ store' = [i \in Ids |->
                         IF lastWrite[i].by # p THEN store[i]
                         ELSE CASE req[p].op = "create" -> NoDoc
                                [] req[p].op = "delete" -> SetDeleted(store[i], FALSE)
                                [] req[p].op = "restore" -> SetDeleted(store[i], TRUE)
                                [] OTHER -> store[i]]
    /\ UNCHANGED <<otherVars, cache, rcache, tagIndex, req, todo, keys, out, override,
                    since, rival, started>>

\* mutant of publishEvent: a failing producer.send is logged and swallowed
PublishEvent_Swallow(p, next, err) ==
    /\ \/ /\ UNCHANGED fails
          /\ trace' = Log(p, "publish")
          /\ msg' = [msg EXCEPT ![p] = Message(req[p])]
       \/ /\ Failing(1)
          /\ trace' = Log(p, "publishFail")
          /\ UNCHANGED msg
    /\ pc' = [pc EXCEPT ![p] = next]
    /\ UNCHANGED <<otherVars, store, cache, rcache, tagIndex, req, todo, keys, out,
                    override, since, rival, started, resp, lastWrite>>

\* producer.send succeeds, or fails and the catch of the caller turns the
\* EVENT_PUBLISH_ERROR into err
PublishEvent(p, next, err) ==
    /\ \/ /\ UNCHANGED fails
          /\ trace' = Log(p, "publish")
          /\ msg' = [msg EXCEPT ![p] = Message(req[p])]
          /\ pc' = [pc EXCEPT ![p] = next]
          /\ UNCHANGED <<resp, lastWrite>>
       \/ /\ Failing(1)
          /\ trace' = Log(p, "publishFail")
          /\ UNCHANGED msg
          /\ ReplyMut(p, err)
    /\ UNCHANGED <<otherVars, store, cache, rcache, tagIndex, req, todo, keys, out,
                    override, since, rival, started>>

\* cacheSet / cacheDelete of the entity key todo:<id> with value v (NoDoc:
\* delete), then the return to the controller, which answers ok after the
\* invalidation; a failure is thrown as err
CacheWrite(p, v, ok, err) ==
    /\ trace' = Log(p, "cache")
    /\ \/ /\ UNCHANGED fails
          /\ cache' = [cache EXCEPT ![req[p].id] = v]
          /\ out' = [out EXCEPT ![p] = ok]
          /\ pc' = [pc EXCEPT ![p] = "inv_keys"]
          /\ UNCHANGED <<resp, lastWrite>>
       \/ /\ Failing(1)
          /\ ReplyMut(p, err)
          /\ UNCHANGED <<cache, out>>
    /\ UNCHANGED <<otherVars, msg, store, rcache, tagIndex, req, todo, keys, override, since, rival,
                    started>>

(* -------------------------- TodoService.update ------------------------- *)
StartUpdate(p) == \E i \in Ids, d \in UpdateData :
                     Begin(p, [NoReq EXCEPT !.op = "update", !.id = i, !.data = d], "u_store")

\* two updates of one document race when one commits while the other, with
\* the same expected version, has not reached the store yet
RivalAfterUpdate(p) ==
    LET base == RivalAfterWrite(p, {req[p].id})
        Q == {q \in Procs \ {p} : /\ pc[q] = "u_store"
                                    /\ req[q].id = req[p].id
                                    /\ req[q].data.version = req[p].data.version
                                    /\ base[q] = 0}
    IN IF base[p] = 0 /\ Q # {}
       THEN LET q == CHOOSE x \in Q : \A y \in Q : x <= y
            IN [base EXCEPT ![p] = q, ![q] = p]
       ELSE base

\* mutant of update: a null result is not thrown at once, the conflict is
\* reported after the controller has invalidated the tags
UpdateStore_NoAbort(p) ==
    /\ pc[p] = "u_store"
    /\ LET i == req[p].id
           d == store[i]
       IN IF UpdateFilter(d, req[p].data)
          THEN /\ store' = [store EXCEPT ![i] = UpdateDoc(d, req[p].data)]
               /\ todo' = [todo EXCEPT ![p] = UpdateDoc(d, req[p].data)]
               /\ pc' = [pc EXCEPT ![p] = "u_publish"]
               /\ trace' = Log(p, "store")
               /\ lastWrite' = WriteBy(p, {i}, "update")
               /\ since' = SinceAfterWrite({i})
               /\ rival' = RivalAfterUpdate(p)
               /\ UNCHANGED <<resp, out>>
          ELSE /\ pc' = [pc EXCEPT ![p] = "inv_keys"]
               /\ out' = [out EXCEPT ![p] = VersionConflict]
               /\ UNCHANGED <<store, todo, trace, since, rival, resp, lastWrite>>
    /\ UNCHANGED <<otherVars, msg, cache, rcache, tagIndex, req, keys, override, started, fails>>

\* findOneAndUpdate(filter, update, { new: true }): one atomic store
\* operation; null is thrown as TODO_VERSION_CONFLICT
UpdateStore(p) ==
    /\ pc[p] = "u_store"
    /\ LET i == req[p].id
           d == store[i]
       IN IF UpdateFilter(d, req[p].data)
          THEN /\ store' = [store EXCEPT ![i] = UpdateDoc(d, req[p].data)]
               /\ todo' = [todo EXCEPT ![p] = UpdateDoc(d, req[p].data)]
               /\ pc' = [pc EXCEPT ![p] = "u_publish"]
               /\ trace' = Log(p, "store")
               /\ lastWrite' = WriteBy(p, {i}, "update")
               /\ since' = SinceAfterWrite({i})
               /\ rival' = RivalAfterUpdate(p)
               /\ UNCHANGED resp
          ELSE /\ ReplyMut(p, VersionConflict)
               /\ UNCHANGED <<store, todo, trace, since, rival>>
    /\ UNCHANGED <<otherVars, msg, cache, rcache, tagIndex, req, keys, out, override, started, fails>>

UpdatePublish(p) == pc[p] = "u_publish" /\ PublishEvent(p, "u_cacheSet", EventPublishError)

UpdateCacheSet(p) ==
    /\ pc[p] = "u_cacheSet"
    /\ CacheWrite(p, todo[p], OkResp(200, TodoBody(todo[p])), CacheError)

(* -------------------------- TodoService.delete ------------------------- *)
StartDelete(p) == \E i \in Ids : Begin(p, [NoReq EXCEPT !.op = "delete", !.id = i], "d_store")

\* findOneAndUpdate({ _id, isDeleted: false }, { isDeleted: true }): returns
\* the document as it was before the update
DeleteStore(p) ==
    /\ pc[p] = "d_store"
    /\ LET i == req[p].id
           d == store[i]
       IN IF ActiveFilter(d)
          THEN /\ store' = [store EXCEPT ![i] = SetDeleted(d, TRUE)]
               /\ todo' = [todo EXCEPT ![p] = d]
               /\ pc' = [pc EXCEPT ![p] = "d_publish"]
               /\ trace' = Log(p, "store")
               /\ lastWrite' = WriteBy(p, {i}, "delete")
               /\ since' = SinceAfterWrite({i})
               /\ rival' = RivalAfterWrite(p, {i})
               /\ UNCHANGED resp
          ELSE /\ ReplyMut(p, NotFound)
               /\ UNCHANGED <<store, todo, trace, since, rival>>
    /\ UNCHANGED <<otherVars, msg, cache, rcache, tagIndex, req, keys, out, override, started, fails>>

DeletePublish(p) == pc[p] = "d_publish" /\ PublishEvent(p, "d_cacheDel", EventPublishError)

DeleteCacheDel(p) ==
    /\ pc[p] = "d_cacheDel"
    /\ CacheWrite(p, NoDoc, OkResp(200, MessageBody), CacheError)

(* ------------------------- TodoService.restore ------------------------- *)
StartRestore(p) == \E i \in Ids : Begin(p, [NoReq EXCEPT !.op = "restore", !.id = i], "r_store")

\* findOneAndUpdate({ _id, isDeleted: true }, { isDeleted: false }): returns
\* the document as it was before the update
RestoreStore(p) ==
    /\ pc[p] = "r_store"
    /\ LET i == req[p].id
           d == store[i]
       IN IF RestoreFilter(d)
          THEN /\ store' = [store EXCEPT ![i] = SetDeleted(d, FALSE)]
               /\ todo' = [todo EXCEPT ![p] = d]
               /\ pc' = [pc EXCEPT ![p] = "r_publish"]
               /\ trace' = Log(p, "store")
               /\ lastWrite' = WriteBy(p, {i}, "restore")
               /\ since' = SinceAfterWrite({i})
               /\ rival' = RivalAfterWrite(p, {i})
               /\ UNCHANGED resp
          ELSE /\ ReplyMut(p, NotFound)
               /\ UNCHANGED <<store, todo, trace, since, rival>>
    /\ UNCHANGED <<otherVars, msg, cache, rcache, tagIndex, req, keys, out, override, started, fails>>

RestorePublish(p) == pc[p] = "r_publish" /\ PublishEvent(p, "r_cacheSet", EventPublishError)

RestoreCacheSet(p) ==
    /\ pc[p] = "r_cacheSet"
    /\ CacheWrite(p, todo[p], OkResp(200, MessageBody), CacheError)

(* -------------------------- TodoService.create ------------------------- *)
FreeIds == {i \in Ids : store[i] = NoDoc}

StartCreate(p) == /\ FreeIds # {}
                  /\ \E d \in CreateData :
                       Begin(p, [NoReq EXCEPT !.op = "create", !.data = d], "c_save")

\* new TodoModel(data) and todo.save(): the store assigns the identifier
CreateSave(p) ==
    /\ pc[p] = "c_save"
    /\ FreeIds # {}
    /\ LET i == CHOOSE x \in FreeIds : \A y \in FreeIds : x <= y
       IN /\ store' = [store EXCEPT ![i] = NewDoc(req[p].data)]
          /\ todo' = [todo EXCEPT ![p] = NewDoc(req[p].data)]
          /\ req' = [req EXCEPT ![p].id = i]
          /\ lastWrite' = WriteBy(p, {i}, "create")
          /\ since' = SinceAfterWrite({i})
          /\ rival' = RivalAfterWrite(p, {i})
    /\ pc' = [pc EXCEPT ![p] = "c_publish"]
    /\ trace' = Log(p, "store")
    /\ UNCHANGED <<otherVars, msg, cache, rcache, tagIndex, keys, out, resp, override, started, fails>>

\* the catch of create rethrows every error as DATABASE_ERROR
CreatePublish(p) == pc[p] = "c_publish" /\ PublishEvent(p, "c_cacheSet", DatabaseError)

CreateCacheSet(p) ==
    /\ pc[p] = "c_cacheSet"
    /\ CacheWrite(p, todo[p], OkResp(201, TodoBody(todo[p])), DatabaseError)

(* ------------------------ TodoService.bulkUpdate ----------------------- *)
StartBulk(p) == \E I \in (SUBSET Ids) \ {{}}, d \in BulkData :
                   Begin(p, [NoReq EXCEPT !.op = "bulk", !.ids = I, !.data = d], "b_store")

\* updateMany({ _id: { $in: ids }, isDeleted: false }, update); with schema
\* timestamps every matched document is modified
BulkStore(p) ==
    /\ pc[p] = "b_store"
    /\ LET M == {i \in req[p].ids : ActiveFilter(store[i])}
       IN /\ store' = [i \in Ids |-> IF i \in M THEN BulkDoc(store[i], req[p].data)
                                      ELSE store[i]]
          /\ out' = [out EXCEPT ![p] = OkResp(200, CountBody(Cardinality(M)))]
          /\ lastWrite' = WriteBy(p, M, "bulk")
          /\ since' = SinceAfterWrite(M)
          /\ rival' = RivalAfterWrite(p, M)
    /\ pc' = [pc EXCEPT ![p] = "b_cacheDel"]
    /\ trace' = Log(p, "store")
    /\ UNCHANGED <<otherVars, msg, cache, rcache, tagIndex, req, todo, keys, resp, override, started,
                    fails>>

\* Promise.all(ids.map(id => cacheDelete(...))): every delete is issued, the
\* ones in F fail and the catch of bulkUpdate rethrows as DATABASE_ERROR
BulkCacheDel(p) ==
    /\ pc[p] = "b_cacheDel"
    /\ trace' = Log(p, "cache")
    /\ \E F \in SUBSET req[p].ids :
         /\ Failing(Cardinality(F))
         /\ cache' = [i \in Ids |-> IF i \in req[p].ids \ F THEN NoDoc ELSE cache[i]]
         /\ IF F = {}
            THEN pc' = [pc EXCEPT ![p] = "b_publish"] /\ UNCHANGED <<resp, lastWrite>>
            ELSE ReplyMut(p, DatabaseError)
    /\ UNCHANGED <<otherVars, msg, store, rcache, tagIndex, req, todo, keys, out, override, since, rival,
                    started>>

BulkPublish(p) == pc[p] = "b_publish" /\ PublishEvent(p, "inv_keys", DatabaseError)

(* ------------------ TodoService.query and getStatistics ---------------- *)
\* TodoModel.find({ isDeleted: false }) of a query without filters
QueryFind(p) ==
    /\ pc[p] = "q_find"
    /\ ReplyGet(p, OkResp(200, ListBody(QueryItems(store, req[p].data.status))))
    /\ UNCHANGED <<otherVars, msg, store, cache, rcache, tagIndex, req, todo, keys, override, trace,
                    lastWrite, since, rival, started, fails>>

\* the aggregation over { isDeleted: false }; the controller then
\* invalidates the tag todoStatistics before it answers
StatsAggregate(p) ==
    /\ pc[p] = "st_agg"
    /\ out' = [out EXCEPT ![p] = OkResp(200, StatsBody(ActiveCount(store)))]
    /\ pc' = [pc EXCEPT ![p] = "inv_keys"]
    /\ UNCHANGED <<otherVars, msg, store, cache, rcache, tagIndex, req, todo, keys, resp, override,
                    trace, lastWrite, since, rival, started, fails>>

(* --------------------------- the specification ------------------------- *)
Next == \/ \E p \in Procs : StartGet(p)
        \/ \E p \in Procs : StartList(p)
        \/ \E p \in Procs : StartStats(p)
        \/ \E p \in Procs : StartCreate(p)
        \/ \E p \in Procs : StartUpdate(p)
        \/ \E p \in Procs : StartDelete(p)
        \/ \E p \in Procs : StartRestore(p)
        \/ \E p \in Procs : StartBulk(p)
        \/ \E p \in Procs : MwGet(p)
        \/ \E p \in Procs : Json(p)
        \/ \E p \in Procs : FindByIdCacheGet(p)
        \/ \E p \in Procs : FindByIdFindOne(p)
        \/ \E p \in Procs : FindByIdCacheSet(p)
        \/ \E p \in Procs : QueryFind(p)
        \/ \E p \in Procs : StatsAggregate(p)
        \/ \E p \in Procs : CreateSave(p)
        \/ \E p \in Procs : CreatePublish(p)
        \/ \E p \in Procs : CreateCacheSet(p)
        \/ \E p \in Procs : UpdateStore(p)
        \/ \E p \in Procs : UpdatePublish(p)
        \/ \E p \in Procs : UpdateCacheSet(p)
        \/ \E p \in Procs : DeleteStore(p)
        \/ \E p \in Procs : DeletePublish(p)
        \/ \E p \in Procs : DeleteCacheDel(p)
        \/ \E p \in Procs : RestoreStore(p)
        \/ \E p \in Procs : RestorePublish(p)
        \/ \E p \in Procs : RestoreCacheSet(p)
        \/ \E p \in Procs : BulkStore(p)
        \/ \E p \in Procs : BulkCacheDel(p)
        \/ \E p \in Procs : BulkPublish(p)
        \/ \E p \in Procs : InvKeys(p)
        \/ \E p \in Procs : InvDel(p)
        \/ \E p \in Procs : InvSrem(p)
        \/ \E p \in Procs : FinishReq(p)

Spec == Init /\ [][Next]_vars

(* ============ TodoProducer (events/producers/todo.producer.ts) ========= *)
\* Each caller runs one call of the singleton at a time; every await of
\* TodoProducer and of KafkaClient is one step, so calls of different callers
\* interleave at the suspension points of the code.

\* a call ends: its promise is settled with r
Settle(c, r) == /\ cpc' = [cpc EXCEPT ![c] = "idle"]
                /\ result' = [result EXCEPT ![c] = r]

\* a caller that runs no call starts one
BeginCall(c, cl) == /\ cpc[c] = "idle"
                    /\ calls < MaxCalls
                    /\ calls' = calls + 1
                    /\ call' = [call EXCEPT ![c] = cl]
                    /\ result' = [result EXCEPT ![c] = "none"]
                    /\ sent' = [sent EXCEPT ![c] = <<>>]

\* KafkaClient.getProducer up to its first await: without a producer it
\* creates one, stores it and awaits its connect(); with one it returns it
GetProducer(c) ==
    IF kafkaProducer = NoProducer
    THEN /\ created' = created + 1
         /\ kafkaProducer' = created + 1
         /\ local' = [local EXCEPT ![c] = created + 1]
         /\ cpc' = [cpc EXCEPT ![c] = "connect"]
    ELSE /\ local' = [local EXCEPT ![c] = kafkaProducer]
         /\ cpc' = [cpc EXCEPT ![c] = "getProducer"]
         /\ UNCHANGED <<created, kafkaProducer>>

\* ensureInitialized up to its await: an initialized TodoProducer returns, any
\* other calls KafkaClient.getProducer
EnsureInitialized(c) ==
    IF initialized
    THEN /\ cpc' = [cpc EXCEPT ![c] = "ensured"]
         /\ UNCHANGED <<acquired, created, kafkaProducer, local>>
    ELSE /\ acquired' = acquired + 1
         /\ GetProducer(c)

\* sendTodoEvent(eventType, todo) is called
SendTodoEvent(c) ==
    /\ \E id \in TodoIds : BeginCall(c, [op |-> "send", events |-> <<id>>])
    /\ EnsureInitialized(c)
    /\ UNCHANGED <<pipelineVars, queryVars, consumerVars, producer, initialized, connected>>

\* sendBatchTodoEvents(events) is called
SendBatchTodoEvents(c) ==
    /\ \E events \in Batches : BeginCall(c, [op |-> "batch", events |-> events])
    /\ EnsureInitialized(c)
    /\ UNCHANGED <<pipelineVars, queryVars, consumerVars, producer, initialized, connected>>

\* producer.connect() of KafkaClient.getProducer settles: the connection is
\* up and getProducer returns KafkaClient.producer as it is by now, or
\* connect() rejects and ensureInitialized rethrows
Connect(c) ==
    /\ cpc[c] = "connect"
    /\ \/ /\ connected' = connected \cup {local[c]}
          /\ local' = [local EXCEPT ![c] = kafkaProducer]
          /\ cpc' = [cpc EXCEPT ![c] = "getProducer"]
          /\ UNCHANGED <<result, acquired>>
       \/ /\ Settle(c, "Failed to initialize producer")
          /\ acquired' = acquired - 1
          /\ UNCHANGED <<connected, local>>
    /\ UNCHANGED <<pipelineVars, queryVars, consumerVars, producer, initialized, kafkaProducer, created, call, sent,
                    calls>>

\* the await of ensureInitialized resumes: this.producer and this.initialized
\* are assigned
Initialize(c) ==
    /\ cpc[c] = "getProducer"
    /\ producer' = local[c]
    /\ initialized' = TRUE
    /\ cpc' = [cpc EXCEPT ![c] = "ensured"]
    /\ UNCHANGED <<pipelineVars, queryVars, consumerVars, kafkaProducer, created, connected, call, local, result,
                    sent, acquired, calls>>

\* ensureProducer
EnsureProducer == producer # NoProducer

\* mutant of invalidTodos: only the first event of a batch is inspected
InvalidTodos_First(events) == SelectSeq(SubSeq(events, 1, 1), LAMBDA id : id = NoId)

\* invalidTodos: the events of a batch whose todo has no _id
InvalidTodos(events) == SelectSeq(events, LAMBDA id : id = NoId)

\* sendTodoEvent after the await of ensureInitialized: the _id is checked,
\* then the producer, then producer.send is called
SendTodoEventCheck(c) ==
    /\ cpc[c] = "ensured"
    /\ call[c].op = "send"
    /\ IF call[c].events[1] = NoId
       THEN Settle(c, "Todo must have an _id") /\ UNCHANGED local
       ELSE IF ~EnsureProducer
            THEN Settle(c, "Producer not initialized") /\ UNCHANGED local
            ELSE /\ local' = [local EXCEPT ![c] = producer]
                 /\ cpc' = [cpc EXCEPT ![c] = "send"]
                 /\ UNCHANGED result
    /\ UNCHANGED <<pipelineVars, queryVars, consumerVars, producer, initialized, kafkaProducer, created, connected,
                    call, sent, acquired, calls>>

\* sendBatchTodoEvents after the await of ensureInitialized: the producer is
\* checked, then the _id of every event, then producer.sendBatch is called
SendBatchTodoEventsCheck(c) ==
    /\ cpc[c] = "ensured"
    /\ call[c].op = "batch"
    /\ IF ~EnsureProducer
       THEN Settle(c, "Producer not initialized") /\ UNCHANGED local
       ELSE IF Len(InvalidTodos(call[c].events)) > 0
            THEN Settle(c, "All todos must have an _id") /\ UNCHANGED local
            ELSE /\ local' = [local EXCEPT ![c] = producer]
                 /\ cpc' = [cpc EXCEPT ![c] = "send"]
                 /\ UNCHANGED result
    /\ UNCHANGED <<pipelineVars, queryVars, consumerVars, producer, initialized, kafkaProducer, created, connected,
                    call, sent, acquired, calls>>

\* producer.send / producer.sendBatch settles: the messages, keyed by the _id
\* of their todos, are handed over if the connection of the producer is up;
\* a rejection is rethrown
Send(c) ==
    /\ cpc[c] = "send"
    /\ \/ /\ local[c] \in connected
          /\ sent' = [sent EXCEPT ![c] = call[c].events]
          /\ Settle(c, "ok")
       \/ /\ Settle(c, "Failed to send")
          /\ UNCHANGED sent
    /\ UNCHANGED <<pipelineVars, queryVars, consumerVars, producer, initialized, kafkaProducer, created, connected,
                    call, local, acquired, calls>>

\* disconnect() is called: KafkaClient.disconnect up to its first await, the
\* disconnect() of the producer it holds, if any
Disconnect(c) ==
    /\ BeginCall(c, [op |-> "disconnect", events |-> <<>>])
    /\ local' = [local EXCEPT ![c] = kafkaProducer]
    /\ cpc' = [cpc EXCEPT ![c] =
                 IF kafkaProducer = NoProducer THEN "disconnected" ELSE "disconnect"]
    /\ UNCHANGED <<pipelineVars, queryVars, consumerVars, producer, initialized, kafkaProducer, created, connected,
                    acquired>>

\* producer.disconnect() of KafkaClient.disconnect settles: the connection is
\* down and KafkaClient.producer is null, or it rejects and disconnect rethrows
ProducerDisconnect(c) ==
    /\ cpc[c] = "disconnect"
    /\ \/ /\ connected' = connected \ {local[c]}
          /\ kafkaProducer' = NoProducer
          /\ cpc' = [cpc EXCEPT ![c] = "disconnected"]
          /\ UNCHANGED result
       \/ /\ Settle(c, "Failed to disconnect")
          /\ UNCHANGED <<connected, kafkaProducer>>
    /\ UNCHANGED <<pipelineVars, queryVars, consumerVars, producer, initialized, created, call, local, sent,
                    acquired, calls>>

\* the await of disconnect resumes: this.producer and this.initialized are
\* reset, and a new connected period begins with the next send
Disconnected(c) ==
    /\ cpc[c] = "disconnected"
    /\ producer' = NoProducer
    /\ initialized' = FALSE
    /\ acquired' = 0
    /\ Settle(c, "ok")
    /\ UNCHANGED <<pipelineVars, queryVars, consumerVars, kafkaProducer, created, connected, call, local, sent,
                    calls>>

ProducerNext == \/ \E c \in Callers : SendTodoEvent(c)
                \/ \E c \in Callers : SendBatchTodoEvents(c)
                \/ \E c \in Callers : Connect(c)
                \/ \E c \in Callers : Initialize(c)
                \/ \E c \in Callers : SendTodoEventCheck(c)
                \/ \E c \in Callers : SendBatchTodoEventsCheck(c)
                \/ \E c \in Callers : Send(c)
                \/ \E c \in Callers : Disconnect(c)
                \/ \E c \in Callers : ProducerDisconnect(c)
                \/ \E c \in Callers : Disconnected(c)

\* the callers of TodoProducer on a process whose HTTP pipeline is idle
ProducerSpecInit == /\ Init
                    /\ store = [i \in Ids |-> IF i = 1 THEN SeedDoc ELSE NoDoc]
                    /\ cache = [i \in Ids |-> NoDoc]

ProducerSpec == ProducerSpecInit /\ [][ProducerNext]_vars

(* ====== the pagination of GET /todos (queryTodos, TodoService.query) ==== *)
\* limitNum > 100 of validatePagination
MaxLimit == 100

\* the defaults of page and limit in TodoService.query
DefaultPage == 1

DefaultLimit == 10

\* the truthiness of a query-string parameter: page ? parseInt(page, 10) : undefined
Given(param) == param.kind \in {"text", "int"}

\* isNaN(parseInt(param, 10))
IsNaN(param) == param.kind = "text"

\* mutant of validatePagination: a limit above 100 is let through
ValidatePagination_NoMax(page, limit) ==
    /\ ~(Given(page) /\ (IsNaN(page) \/ page.n < 1))
    /\ ~(Given(limit) /\ (IsNaN(limit) \/ limit.n < 1))

\* validatePagination returns (TRUE) or throws VALIDATION_ERROR (FALSE)
ValidatePagination(page, limit) ==
    /\ ~(Given(page) /\ (IsNaN(page) \/ page.n < 1))
    /\ ~(Given(limit) /\ (IsNaN(limit) \/ limit.n < 1 \/ limit.n > MaxLimit))

\* the page / limit TodoService.query works with: the parsed parameter, or
\* the default of the destructuring for undefined
ParamOr(param, default) == IF Given(param) THEN param.n ELSE default

\* the number of documents find(query).skip(skip).limit(limit) returns out
\* of total matches (limit 0: no limit)
FindCount(total, skip, limit) ==
    LET rest == IF total > skip THEN total - skip ELSE 0
        most == IF limit < 0 THEN 0 - limit ELSE limit
    IN  IF limit = 0 \/ rest < most THEN rest ELSE most

\* GET /todos arrives at queryTodos: validatePagination throws, or the query
\* is built and TodoService.query runs up to its await of find and countDocuments
QueryTodos ==
    /\ qpc = "idle"
    /\ \E page \in Params(0 - 1, MaxPage) : \E limit \in Params(0 - 1, MaxParam) :
          /\ query' = [page |-> page, limit |-> limit]
          /\ IF ValidatePagination(page, limit)
             THEN /\ applied' = [made |-> TRUE,
                                 skip |-> (ParamOr(page, DefaultPage) - 1)
                                            * ParamOr(limit, DefaultLimit),
                                 limit |-> ParamOr(limit, DefaultLimit)]
                  /\ qpc' = "find"
                  /\ UNCHANGED qresp
             ELSE /\ qresp' = [NoQueryResp EXCEPT !.status = 400,
                                                  !.code = "VALIDATION_ERROR"]
                  /\ qpc' = "done"
                  /\ UNCHANGED applied
    /\ UNCHANGED <<pipelineVars, producerVars, consumerVars>>

\* find and countDocuments settle: 200 with the items and the metadata, or
\* the catch of TodoService.query turns a rejection into DATABASE_ERROR
QueryPage ==
    /\ qpc = "find"
    /\ \/ qresp' = [status |-> 200, code |-> "", limit |-> applied.limit,
                    items |-> FindCount(ActiveCount(store), applied.skip, applied.limit)]
       \/ qresp' = [NoQueryResp EXCEPT !.status = 500, !.code = "DATABASE_ERROR"]
    /\ qpc' = "done"
    /\ UNCHANGED <<pipelineVars, producerVars, consumerVars, query, applied>>

\* the response has been delivered
QueryDone ==
    /\ qpc = "done"
    /\ qpc' = "idle"
    /\ query' = [page |-> NoParam, limit |-> NoParam]
    /\ applied' = NoFind
    /\ qresp' = NoQueryResp
    /\ UNCHANGED <<pipelineVars, producerVars, consumerVars>>

QueryNext == QueryTodos \/ QueryPage \/ QueryDone

\* list requests against a store whose documents are all active
QuerySpecInit == /\ Init
                 /\ store = [i \in Ids |-> SeedDoc]
                 /\ cache = [i \in Ids |-> NoDoc]

QuerySpec == QuerySpecInit /\ [][QueryNext]_vars

(* ======== the topic todo-events: its publishers and TodoConsumer ======== *)
\* the payload each method of TodoService passes to publishEvent: the
\* document (with its _id) for create, update and restore, { id } for delete,
\* { ids, update, modifiedCount } for bulkUpdate
Payload(r) == CASE r.op \in {"create", "update", "restore"} -> [_id |-> r.id]
                [] r.op = "delete" -> [id |-> r.id]
                [] OTHER -> [ids |-> r.ids]

\* the value of the message of TodoService.publishEvent:
\* JSON.stringify({ type, payload })
ServiceValue(r) == [type |-> EventType(r), payload |-> Payload(r)]

\* the value of the message of TodoProducer.sendTodoEvent:
\* JSON.stringify({ eventType, todo, timestamp }), the todo being the document
\* doc with _id id
ProducerValue(eventType, id, doc) ==
    [eventType |-> eventType, todo |-> [_id |-> id, doc |-> doc]]

\* the mutations whose events TodoService publishes
Published == {[NoReq EXCEPT !.op = op, !.id = i] :
                 op \in {"create", "update", "delete", "restore"}, i \in Ids}
               \cup {[NoReq EXCEPT !.op = "bulk", !.ids = I] : I \in (SUBSET Ids) \ {{}}}

\* TodoService.publishEvent hands a message to the topic
ServicePublish ==
    /\ Len(topic) + Len(handled) < MaxMessages
    /\ \E r \in Published :
          topic' = Append(topic, [by |-> "service", value |-> ServiceValue(r)])
    /\ UNCHANGED <<pipelineVars, producerVars, queryVars, handled>>

\* TodoProducer.sendTodoEvent hands a message to the topic
ProducerPublish ==
    /\ Len(topic) + Len(handled) < MaxMessages
    /\ \E eventType \in {"created", "updated", "deleted"} : \E i \in Ids :
          topic' = Append(topic, [by |-> "producer",
                                  value |-> ProducerValue(eventType, i, store[i])])
    /\ UNCHANGED <<pipelineVars, producerVars, queryVars, handled>>

\* const { eventType, todo } = eventData and handleTodoEvent(eventType, todo):
\* what becomes of a message with value v.  An undefined todo makes the
\* template `todo:${todo._id}` throw a TypeError, which the catch of
\* eachMessage hands to handleDeadLetter; an undefined eventType falls to the
\* default of the switch
Handle(v) ==
    IF "todo" \notin DOMAIN v THEN "deadLetter"
    ELSE IF "eventType" \notin DOMAIN v THEN "ignored"
    ELSE CASE v.eventType \in {"created", "updated"} -> "set"
           [] v.eventType = "deleted" -> "del"
           [] OTHER -> "ignored"

\* eachMessage of startConsuming on the oldest message of the topic: setex or
\* del of the entity key of the todo, or handleDeadLetter (also when the
\* Redis call rejects)
EachMessage ==
    /\ topic # <<>>
    /\ LET m == Head(topic)
           h == Handle(m.value)
       IN \/ /\ handled' = Append(handled, [by |-> m.by, value |-> m.value,
                                            outcome |-> h])
             /\ cache' = CASE h = "set" ->
                                 [cache EXCEPT ![m.value.todo._id] = m.value.todo.doc]
                           [] h = "del" -> [cache EXCEPT ![m.value.todo._id] = NoDoc]
                           [] OTHER -> cache
          \/ /\ h \in {"set", "del"}
             /\ handled' = Append(handled, [by |-> m.by, value |-> m.value,
                                            outcome |-> "deadLetter"])
             /\ UNCHANGED cache
    /\ topic' = Tail(topic)
    /\ UNCHANGED <<producerVars, queryVars, store, rcache, tagIndex, pc, req, todo, keys,
                    out, resp, override, trace, lastWrite, since, rival, started, fails,
                    msg>>

ConsumerNext == ServicePublish \/ ProducerPublish \/ EachMessage

\* a consumer on a process whose HTTP pipeline is idle
ConsumerSpecInit == /\ Init
                    /\ store = [i \in Ids |-> SeedDoc]
                    /\ cache = [i \in Ids |-> NoDoc]

ConsumerSpec == ConsumerSpecInit /\ [][ConsumerNext]_vars

(* ============================== the claims ============================= *)
Has(p, e) == \E k \in 1..Len(trace[p]) : trace[p][k] = e

Done(p, op) == pc[p] = "done" /\ req[p].op = op

\* C1 (as claimed): a GET /todos/:id issued after an update of that id has
\* returned success, with no later write to the document, never answers with
\* a record other than the stored, updated one.
C1_ReadAfterUpdate ==
    \A p \in Procs :
        (Done(p, "get") /\ since[p] = "update" /\ resp[p].body.kind = "todo")
            => resp[p].body.data = store[req[p].id]

\* C2: an update of an existing active record whose supplied version differs
\* from the stored one is answered with TODO_VERSION_CONFLICT (409) and leaves
\* the whole store as it was.
C2_MismatchIsConflict ==
    [][\A p \in Procs :
          (/\ pc[p] = "u_store" /\ pc'[p] # "u_store"
           /\ ActiveFilter(store[req[p].id])
           /\ store[req[p].id].version # req[p].data.version)
              => (resp'[p] = VersionConflict /\ pc'[p] = "done" /\ store' = store)]_vars

C2_Witness ==
    \E p \in Procs :
        /\ Done(p, "update") /\ resp[p] = VersionConflict
        /\ ActiveFilter(store[req[p].id])
        /\ store[req[p].id].version # req[p].data.version

C5_StorePublishCache ==
    \A p \in Procs : \A j \in 1..Len(trace[p]) : \A k \in 1..Len(trace[p]) :
        j < k => /\ ~(trace[p][j] = "cache" /\ trace[p][k] \in {"publish", "publishFail"})
                 /\ trace[p][k] # "store"

\* C6: an update answered with TODO_VERSION_CONFLICT has published no event
\* and made no call to Redis: the failing store step answers at once and
\* leaves the entity cache, the response cache and the tag index untouched.
C6_ConflictTouchesNothing ==
    /\ [](\A p \in Procs :
             (Done(p, "update") /\ resp[p] = VersionConflict) => trace[p] = <<>>)
    /\ [][\A p \in Procs :
             (pc[p] = "u_store" /\ pc'[p] # "u_store" /\ ~UpdateFilter(store[req[p].id], req[p].data))
                => /\ pc'[p] = "done"
                   /\ resp'[p] = VersionConflict
                   /\ UNCHANGED <<cache, rcache, tagIndex>>]_vars

C6_Witness ==
    \E p \in Procs :
        /\ Done(p, "update") /\ resp[p] = VersionConflict
        /\ cache[req[p].id] # NoDoc
        /\ rcache[RKey("todo", req[p].id)] # NoBody

\* C7 (as claimed): an update of an identifier no document has is answered
\* with RESOURCE_NOT_FOUND (404).
C7_MissingIsNotFound ==
    \A p \in Procs :
        (Done(p, "update") /\ store[req[p].id] = NoDoc) => resp[p] = NotFound

\* C8: restore of an ACTIVE record and delete of a DELETED record are
\* answered with RESOURCE_NOT_FOUND (404) at the store step, leave the whole
\* store as it was and publish no event.
C8_WrongStateIsNotFound ==
    /\ [][\A p \in Procs :
             (\/ /\ pc[p] = "r_store" /\ pc'[p] # "r_store"
                 /\ ActiveFilter(store[req[p].id])
              \/ /\ pc[p] = "d_store" /\ pc'[p] # "d_store"
                 /\ store[req[p].id] # NoDoc /\ store[req[p].id].isDeleted)
                => /\ resp'[p] = NotFound
                   /\ pc'[p] = "done"
                   /\ store' = store
                   /\ trace'[p] = <<>>]_vars
    /\ [](\A p \in Procs :
             (pc[p] = "done" /\ req[p].op \in {"restore", "delete"} /\ resp[p] = NotFound)
                => trace[p] = <<>>)

C8_Witness ==
    \E p \in Procs : \E q \in Procs :
        /\ Done(p, "restore") /\ resp[p] = NotFound /\ ActiveFilter(store[req[p].id])
        /\ Done(q, "delete") /\ resp[q] = NotFound /\ store[req[q].id].isDeleted

\* C9 (as claimed): a GET /todos/:id issued after a delete of that id has
\* returned success, with no later write to the document and no failing
\* Redis or Kafka call, is answered with RESOURCE_NOT_FOUND (404).
C9_DeletedIsNotRead ==
    \A p \in Procs :
        (Done(p, "get") /\ since[p] = "delete" /\ fails = 0) => resp[p] = NotFound

\* C10 (as claimed): a GET /todos/:id issued after a restore of that id has
\* returned success, with no later write to the document and no failing
\* Redis or Kafka call, is answered 200 with a record whose isDeleted is
\* false, and the stored record has isDeleted = false.
C10_RestoredIsRead ==
    \A p \in Procs :
        (Done(p, "get") /\ since[p] = "restore" /\ fails = 0)
            => /\ ~store[req[p].id].isDeleted
               /\ resp[p].status = 200
               /\ resp[p].body.kind = "todo"
               /\ ~resp[p].body.data.isDeleted

\* C11 (as claimed): the record a create answered with 201 returns has
\* version 1 and isDeleted = false, and it is the record stored under the
\* identifier the store assigned.
C11_CreateDefaults ==
    \A p \in Procs :
        (Done(p, "create") /\ resp[p].status = 201)
            => /\ req[p].id \in Ids
               /\ resp[p].body.data = todo[p]
               /\ resp[p].body.data.version = 1
               /\ ~resp[p].body.data.isDeleted

Mutations == {"create", "update", "delete", "restore", "bulk"}

Count(p, e) == Cardinality({k \in 1..Len(trace[p]) : trace[p][k] = e})

\* C12: a create, update, delete, restore or bulkUpdate that is answered with
\* success (200 or 201) has made exactly one call to publishEvent, and that
\* call had returned without error before the answer was sent.
C12_OneEventPerSuccess ==
    \A p \in Procs :
        (pc[p] = "done" /\ req[p].op \in Mutations /\ resp[p].status \in {200, 201})
            => (Count(p, "publish") = 1 /\ Count(p, "publishFail") = 0)

C12_Witness ==
    \E p \in Procs : \E q \in Procs :
        /\ Done(p, "bulk") /\ resp[p].status = 200 /\ Count(p, "publish") = 1
        /\ Done(q, "delete") /\ resp[q].status = 200 /\ Count(q, "publish") = 1

PublishPcs == {"c_publish", "u_publish", "d_publish", "r_publish", "b_publish"}

\* document d carries the change request p has written to it
Applied(p, d) == CASE req[p].op \in {"create", "update"} -> d = todo[p]
                   [] req[p].op = "delete" -> d = SetDeleted(todo[p], TRUE)
                   [] req[p].op = "restore" -> d = SetDeleted(todo[p], FALSE)
                   [] OTHER -> d.status = req[p].data.status

\* C13: when the publish of a create, update, delete, restore or bulkUpdate
\* fails, the request is answered at once with an error (status 500,
\* success false), the step leaves the whole store as it is, and every
\* document whose last write is this request's still carries that change.
C13_PublishFailureKeepsWrite ==
    [][\A p \in Procs :
          (pc[p] \in PublishPcs /\ pc'[p] # pc[p] /\ fails' = fails + 1)
             => /\ pc'[p] = "done"
                /\ resp'[p].status = 500
                /\ ~resp'[p].body.success
                /\ store' = store
                /\ \A i \in Ids : lastWrite[i].by = p => Applied(p, store'[i])]_vars

C13_Witness ==
    \E p \in Procs :
        /\ Done(p, "delete") /\ Count(p, "publishFail") = 1
        /\ resp[p].status = 500
        /\ store[req[p].id].isDeleted
        /\ lastWrite[req[p].id].op = "delete"

CachePcs == {"c_cacheSet", "u_cacheSet", "d_cacheDel", "r_cacheSet", "b_cacheDel"}

\* C14 (as claimed): in every mutation a failing publish is answered with the
\* code EVENT_PUBLISH_ERROR and a failing set or delete of the entity cache
\* with the code CACHE_ERROR.
C14_FailureCodes ==
    [][\A p \in Procs :
          /\ (pc[p] \in PublishPcs /\ pc'[p] # pc[p] /\ fails' > fails)
                => resp'[p] = EventPublishError
          /\ (pc[p] \in CachePcs /\ pc'[p] # pc[p] /\ fails' > fails)
                => resp'[p] = CacheError]_vars

\* C15 (as claimed): a GET /todos/:id issued after an update, delete or
\* restore of the document was answered with an error although its store
\* write had committed, with no later write, gets from findById either no
\* record or the record as it is stored now.
C15_RereadAfterFailure ==
    \A p \in Procs :
        (/\ Done(p, "get") /\ since[p] = "failedWrite"
         /\ lastWrite[req[p].id].op \in {"update", "delete", "restore"}
         /\ todo[p] # NoDoc)
            => todo[p] = store[req[p].id]

\* C16 (as claimed): a step that moves the status of a stored record from a
\* value other than COMPLETED to COMPLETED sets its completedAt, and every
\* other step leaves the completedAt of every record as it is (a new record
\* starts without one).
C16_CompletedAtIffTransition ==
    [][\A i \in Ids :
          IF store[i] = NoDoc
          THEN store'[i] # NoDoc => ~store'[i].completedAt
          ELSE IF store[i].status # "COMPLETED" /\ store'[i].status = "COMPLETED"
               THEN store'[i].completedAt
               ELSE store'[i].completedAt = store[i].completedAt]_vars

\* C17 (as claimed): the isDeleted flag of an existing record changes only in
\* the store step of a delete or a restore of that record.
C17_OnlyDeleteAndRestore ==
    [][\A i \in Ids :
          (store[i] # NoDoc /\ store'[i] # NoDoc /\ store'[i].isDeleted # store[i].isDeleted)
             => \E p \in Procs : /\ pc[p] \in {"d_store", "r_store"}
                                 /\ pc'[p] # pc[p]
                                 /\ req[p].id = i]_vars

\* C18: the store step of a successful delete (restore) sets isDeleted of its
\* record to true (false) and changes nothing else: the version, the status
\* and completedAt of the record, and every other record, stay as they are.
C18_OnlyIsDeletedChanges ==
    [][\A p \in Procs :
          /\ (pc[p] = "d_store" /\ pc'[p] = "d_publish")
                => store' = [store EXCEPT ![req[p].id] = [@ EXCEPT !.isDeleted = TRUE]]
          /\ (pc[p] = "r_store" /\ pc'[p] = "r_publish")
                => store' = [store EXCEPT ![req[p].id] = [@ EXCEPT !.isDeleted = FALSE]]]_vars

C18_Witness ==
    \E p \in Procs : \E q \in Procs :
        /\ Done(p, "delete") /\ resp[p].status = 200
        /\ store[req[p].id] = [todo[p] EXCEPT !.isDeleted = TRUE]
        /\ Done(q, "restore") /\ resp[q].status = 200
        /\ store[req[q].id] = [todo[q] EXCEPT !.isDeleted = FALSE]

\* C19: a step changes a soft-deleted record only if it is the store step of
\* a restore of that record, and then only its isDeleted flag; the store step
\* of an update of a soft-deleted record fails (409) and that of a bulkUpdate
\* counts exactly the active records among its ids.
C19_DeletedIsFrozen ==
    [][/\ \A i \in Ids :
            (store[i] # NoDoc /\ store[i].isDeleted /\ store'[i] # store[i])
               => /\ store'[i] = [store[i] EXCEPT !.isDeleted = FALSE]
                  /\ \E p \in Procs : /\ pc[p] = "r_store" /\ pc'[p] = "r_publish"
                                      /\ req[p].id = i
       /\ \A p \in Procs :
            /\ (pc[p] = "u_store" /\ pc'[p] # pc[p] /\ store[req[p].id].isDeleted)
                  => (pc'[p] = "done" /\ resp'[p].status = 409 /\ store' = store)
            /\ (pc[p] = "b_store" /\ pc'[p] # pc[p])
                  => out'[p].body.count =
                        Cardinality({i \in req[p].ids : store[i] # NoDoc /\ ~store[i].isDeleted})]_vars

C19_Witness ==
    \E p \in Procs : \E q \in Procs :
        /\ Done(p, "bulk") /\ resp[p].status = 200
        /\ resp[p].body.count < Cardinality(req[p].ids)
        /\ \E i \in req[p].ids : store[i].isDeleted /\ store[i].status = "PENDING"
        /\ Done(q, "update") /\ resp[q] = VersionConflict
        /\ store[req[q].id].isDeleted
        /\ store[req[q].id].version = req[q].data.version

\* C20: the store step of bulkUpdate(ids, patch) gives every active record
\* whose id is in ids the status of the patch whatever its version is, leaves
\* every record that is soft-deleted or not in ids as it is, and the count
\* the request returns is the number of active records in ids.
C20_BulkUpdate ==
    [][\A p \in Procs :
          (pc[p] = "b_store" /\ pc'[p] # pc[p])
             => LET M == {i \in req[p].ids : store[i] # NoDoc /\ ~store[i].isDeleted}
                IN /\ \A i \in M : store'[i].status = req[p].data.status
                   /\ \A i \in Ids \ M : store'[i] = store[i]
                   /\ out'[p] = OkResp(200, CountBody(Cardinality(M)))]_vars

C20_Witness ==
    \E p \in Procs :
        /\ Done(p, "bulk") /\ resp[p] = OkResp(200, CountBody(2))
        /\ \A i \in req[p].ids : store[i].status = req[p].data.status
        /\ \E i \in req[p].ids : \E j \in req[p].ids : store[i].version # store[j].version

\* C21 (as claimed): a statistics read or a list query issued after a
\* mutation has been answered with success, with no write under way or
\* later and no failing Redis or Kafka call, is answered with the statistics
\* or the list of the store as it is now.
C21_AggregatesFollowMutations ==
    \A p \in Procs :
        (pc[p] = "done" /\ since[p] = "mutation" /\ fails = 0)
            => /\ req[p].op = "stats" => resp[p].body = StatsBody(ActiveCount(store))
               /\ req[p].op = "list" =>
                    resp[p].body = ListBody(QueryItems(store, req[p].data.status))

\* C22 (as claimed): a GET /todos/:id issued right after the create of that
\* record was answered 201, with no failing Redis or Kafka call, is answered
\* 200 with the stored record, which has the status the create body supplied
\* and version 1.
C22_CreateGetRoundTrip ==
    \A p \in Procs : \A q \in Procs :
        (/\ Done(p, "get") /\ since[p] = "create" /\ fails = 0
         /\ Done(q, "create") /\ resp[q].status = 201 /\ req[q].id = req[p].id)
            => /\ resp[p].status = 200
               /\ resp[p].body = TodoBody(store[req[p].id])
               /\ req[q].data.status # Absent => resp[p].body.data.status = req[q].data.status
               /\ resp[p].body.data.version = 1

C24_EventKeyIsId ==
    \A p \in Procs :
        (req[p].op \in {"create", "update", "delete", "restore"} /\ msg[p] # NoMsg)
            => msg[p].key = req[p].id

\* C25 (as claimed): a GET /todos/:id during which a get of Redis failed is
\* answered with CACHE_ERROR, and no record was fetched for it.
C25_CacheGetFailureIsError ==
    \A p \in Procs :
        (Done(p, "get") /\ Has(p, "getFail"))
            => (resp[p] = CacheError /\ todo[p] = NoDoc)

\* C26 (as claimed): when an update that ran alone, with no failing Redis or
\* Kafka call, has been answered 200, the tags "todos" and "todo" index no
\* key and no response entry of GET /todos or GET /todos/:id is left in Redis.
C26_UpdateInvalidatesTags ==
    \A p \in Procs :
        (Done(p, "update") /\ resp[p].status = 200 /\ fails = 0 /\ started = 1)
            => /\ tagIndex[Tag("todos", 0)] = {}
               /\ tagIndex[Tag("todo", 0)] = {}
               /\ \A k \in RKeys : k.base \in {"todos", "todo"} => rcache[k] = NoBody

\* C27: in an invalidateCache none of whose Redis calls fails, the keys
\* resolved are the union of the index sets of the given tags, the del step
\* removes every one of them from the response cache and the srem step
\* removes every one of them from every tag index set; when the mutation ran
\* alone, at its answer none of those keys is cached or indexed and the given
\* tags index nothing.
C27_InvalidateByTags ==
    /\ [][\A p \in Procs :
             /\ (pc[p] = "inv_keys" /\ pc'[p] = "inv_del")
                   => keys'[p] = UNION {tagIndex[t] : t \in InvTags(req[p])}
             /\ (pc[p] = "inv_del" /\ pc'[p] = "inv_srem")
                   => \A k \in keys[p] : rcache'[k] = NoBody
             /\ (pc[p] = "inv_srem" /\ pc'[p] # pc[p] /\ fails' = fails)
                   => \A t \in Tags : tagIndex'[t] \cap keys[p] = {}]_vars
    /\ [](\A p \in Procs :
             (/\ pc[p] = "done" /\ req[p].op \in Mutations /\ resp[p].status \in {200, 201}
              /\ started = 1 /\ fails = 0)
                => /\ \A k \in keys[p] : rcache[k] = NoBody /\ \A t \in Tags : k \notin tagIndex[t]
                   /\ \A t \in InvTags(req[p]) : tagIndex[t] = {})

C27_Witness ==
    \E p \in Procs :
        /\ Done(p, "delete") /\ resp[p].status = 200 /\ started = 1 /\ fails = 0
        /\ Cardinality(keys[p]) = 2
        /\ \A k \in keys[p] : rcache[k] = NoBody /\ \A t \in Tags : k \notin tagIndex[t]

InvPcs == {"inv_keys", "inv_del", "inv_srem"}

\* C28: when a Redis call of the tag invalidation of a mutation fails, the
\* invalidation ends and the mutation is answered at once with the success
\* response the controller had prepared (200 or 201).
C28_InvalidationNeverFails ==
    [][\A p \in Procs :
          (/\ pc[p] \in InvPcs /\ req[p].op \in Mutations
           /\ pc'[p] # pc[p] /\ fails' > fails)
             => /\ pc'[p] = "done"
                /\ resp'[p] = out[p]
                /\ resp'[p].status \in {200, 201}
                /\ resp'[p].body.success]_vars

C28_Witness ==
    \E p \in Procs :
        /\ Done(p, "update") /\ resp[p].status = 200
        /\ started = 1 /\ fails = 1

\* C29: TodoProducer acquires the Kafka producer lazily on its first send and
\* reuses it for every later send, and acquires one again on the first send
\* after a disconnect: in every connected period (from the start, or from a
\* completed disconnect, to the next completed disconnect) it calls
\* KafkaClient.getProducer at most once, and exactly once by the time a
\* message is handed to producer.send or producer.sendBatch.
C29_OncePerConnectedPeriod ==
    /\ acquired <= 1
    /\ \A c \in Callers : cpc[c] = "send" => acquired = 1

\* C30: a sendTodoEvent whose todo has no _id, and a sendBatchTodoEvents one
\* of whose events has a todo without _id, sends no message and does not end
\* successfully (it rejects with the _id error, or with the error of the
\* producer it could not obtain).
C30_NoIdSendsNothing ==
    \A c \in Callers :
        (/\ call[c].op \in {"send", "batch"}
         /\ \E k \in 1..Len(call[c].events) : call[c].events[k] = NoId)
            => /\ sent[c] = <<>>
               /\ result[c] # "ok"
               /\ (cpc[c] = "idle" =>
                     result[c] \in {"Todo must have an _id", "All todos must have an _id",
                                    "Producer not initialized",
                                    "Failed to initialize producer"})

\* a batch whose first event is valid and whose second has no _id was
\* rejected on an initialized producer, after a single send without _id was
\* rejected as well
C30_Witness ==
    /\ initialized /\ producer # NoProducer
    /\ \E c \in Callers :
          /\ call[c] = [op |-> "batch", events |-> <<1, NoId>>]
          /\ cpc[c] = "idle"
          /\ result[c] = "All todos must have an _id"
    /\ \E c \in Callers :
          /\ call[c] = [op |-> "send", events |-> <<NoId>>]
          /\ cpc[c] = "idle"
          /\ result[c] = "Todo must have an _id"

\* the limit a clamp into [1, MaxLimit] would make of n
Clamp(n) == IF n < 1 THEN 1 ELSE IF n > MaxLimit THEN MaxLimit ELSE n

C32_CacheCoherentAtQuiescence ==
    \A i \in Ids :
        (/\ fails = 0
         /\ \A p \in Procs : /\ pc[p] = "done"
                             /\ req[p].op \in {"update", "get", "delete"}
                             /\ req[p].data.isDeleted = Absent
                             /\ req[p].id = i)
            => \/ cache[i] = NoDoc
               \/ (cache[i] = store[i] /\ ~store[i].isDeleted)

\* C33: once a mutation has been answered 2xx (its tag invalidation has
\* completed) next to a GET /todos that has completed as well, no Redis or
\* Kafka call having failed, the response cache holds no list computed from
\* the store as it was before the mutation: the entry of GET /todos is absent
\* or is the list of the store as it is.
C33_NoStaleResponseAfterInvalidation ==
    \A p \in Procs : \A q \in Procs :
        (/\ fails = 0
         /\ Done(p, "list") /\ req[p].data.status = Absent
         /\ pc[q] = "done" /\ req[q].op \in Mutations
         /\ resp[q].status \in 200..299)
            => rcache[RKey("todos", 0)] \in {NoBody, ListBody(ActiveItems(store))}

\* C34: no step lowers the stored version of a record, and a step that
\* changes it is the store write of an update whose filter (the version
\* check) matched.
C34_VersionOnlyByCheckedUpdate ==
    [][\A i \in Ids :
          store[i] # NoDoc =>
              /\ store'[i].version >= store[i].version
              /\ store'[i].version # store[i].version =>
                    \E p \in Procs : /\ pc[p] = "u_store" /\ pc'[p] = "u_publish"
                                     /\ req[p].id = i
                                     /\ UpdateFilter(store[i], req[p].data)]_vars

\* the value Joi returns for a body under stripUnknown: the fields of
\* todoSchema[schema] only (create and bulkUpdate know no version, no schema
\* knows isDeleted)
Strip(schema, data) == IF schema = "update" THEN [data EXCEPT !.isDeleted = Absent]
                       ELSE [data EXCEPT !.isDeleted = Absent, !.version = 0]

\* C35: body fields outside the validation schema never reach the stored
\* record: the store write of a create, an update or a bulk update writes
\* what the stripped body would write.
C35_UnknownFieldsStripped ==
    [][\A p \in Procs :
          /\ (pc[p] = "c_save" /\ pc'[p] = "c_publish")
                => store'[req'[p].id] = NewDoc(Strip("create", req[p].data))
          /\ (pc[p] = "u_store" /\ pc'[p] = "u_publish")
                => store'[req[p].id] =
                      UpdateDoc(store[req[p].id], Strip("update", req[p].data))
          /\ (pc[p] = "b_store" /\ pc'[p] = "b_cacheDel")
                => \A i \in req[p].ids :
                      ActiveFilter(store[i])
                          => store'[i] = BulkDoc(store[i], Strip("bulkUpdate", req[p].data))]_vars

\* C36: a GET that has been answered is finished: after a cache hit has sent
\* the cached body the route handler does not run (a response of a read is
\* only ever present with the request done).
C36_HitSkipsHandler ==
    \A p \in Procs : (IsRead(req[p]) /\ resp[p] # NoResp) => pc[p] = "done"

\* C37: the response cache never holds the body of an error response (here:
\* of an error that is not due to a failing Redis or Kafka call, such as the
\* 404 for a missing or soft-deleted todo).
C37_NoCachedErrors == fails = 0 => \A k \in RKeys : rcache[k].kind # "error"

\* C38: a mutation that has committed its store write and has completed has
\* attempted its event publish (successfully or not), whatever cache calls
\* failed.
C38_CommitImpliesPublishAttempt ==
    \A p \in Procs :
        (pc[p] = "done" /\ req[p].op \in Mutations /\ Has(p, "store"))
            => (Has(p, "publish") \/ Has(p, "publishFail"))

\* C39: every message of TodoService that TodoConsumer has processed was
\* handled as a cache set or a cache delete, and none went to the
\* dead-letter topic.
C39_ServiceEventsAreHandled ==
    \A k \in 1..Len(handled) :
        handled[k].by = "service" => handled[k].outcome \in {"set", "del"}

====
